---- MODULE Spec2Model ----
\* Model of src/api/index.js: the JSON-RPC dispatcher (processJsonRpcMessage and
\* its handlers) and the two /sse transports (GET: notifications, heartbeat and
\* auto-close timers; POST: one request, one response frame, drain timer).
\* The calls of log() are left out: they write to the console, and with the
\* values they are given here (parsed JSON, strings) they do not throw.
EXTENDS Integers, Sequences, FiniteSets, TLC

VARIABLES
    now,          \* the event loop's clock, in ms
    pPhase,       \* POST /sse: "idle", "receiving", "aborted", "draining", "ended"
    pBody,        \* POST /sse: the request body
    pSock,        \* POST /sse: "up", or "down" once the peer has gone
    pOutcome,     \* POST /sse: what the call of processJsonRpcMessage did
    pFrames,      \* POST /sse: the res.write calls, in order
    pDrainTimer,  \* POST /sse: the armed drain timer: the set of its deadlines
    pEnds,        \* POST /sse: the res.end() calls, in order
    gPhase,       \* GET /sse: "idle", "open"
    gSock,        \* GET /sse: "up", or "down" once the peer has gone
    gClosed,      \* GET /sse: the req 'close' callback has run
    gErrored,     \* GET /sse: the req 'error' callback has run
    gNotifyTimer, \* GET /sse: the armed 100 ms timer: the set of its deadlines
    gHeartbeat,   \* GET /sse: the armed heartbeat interval: its next deadline
    gAutoClose,   \* GET /sse: the armed 50 s timer: the set of its deadlines
    gFrames,      \* GET /sse: the res.write calls, in order
    gEnds,        \* GET /sse: the res.end() calls, in order
    gCallbacks,   \* GET /sse: the timer callbacks that have run, in order
    crashed,      \* an exception left a timer callback uncaught: the process died
    registry,     \* the module-level TOOLS array
    served        \* the POST exchanges completed so far: body and frame, in order

pvars == <<pPhase, pBody, pSock, pOutcome, pFrames, pDrainTimer, pEnds>>
gvars == <<gPhase, gSock, gClosed, gErrored, gNotifyTimer, gHeartbeat, gAutoClose,
           gFrames, gEnds, gCallbacks>>
svars == <<registry, served>>
vars == <<now, pvars, gvars, crashed, svars>>

-----------------------------------------------------------------------------
\* Program constants

MCP_PROTOCOL_VERSION == "2024-11-05"
SERVER_INFO == [name |-> "ghl-mcp-server", version |-> "1.0.0"]
\* Mutant: the registry lists a tool that tools/call does not know.
TOOLS_ExtraTool == << [name |-> "search"], [name |-> "retrieve"], [name |-> "other"] >>
\* The registry: the tool descriptors, in order (the input schemas are not read
\* by any handler and are left out).
TOOLS == << [name |-> "search"], [name |-> "retrieve"] >>

ParseError == -32700
InvalidRequest == -32600
MethodNotFound == -32601
InternalError == -32603

HeartbeatInterval == 25000
\* Mutant: the second notification is delayed beyond the first heartbeat.
ToolsNotifyDelay_AfterHeartbeat == HeartbeatInterval + 100
ToolsNotifyDelay == 100
AutoCloseDelay == 50000
DrainDelay == 2500

-----------------------------------------------------------------------------
\* Bounds of the model

\* A callback runs at its deadline or later, and at most this much later.
MaxLate == 100
\* The instants the clock may jump to: before a deadline, at a deadline, and
\* MaxLate after one.
Deadlines == {ToolsNotifyDelay, DrainDelay, HeartbeatInterval, AutoCloseDelay}
TimePoints == {50, 12500, 37500} \cup Deadlines \cup {d + MaxLate : d \in Deadlines}

-----------------------------------------------------------------------------
\* JavaScript values. A leaf is the JSON text of a value; Undefined is the value
\* of a property that is not there. Unprintable stands for a JSON object such as
\* {"toString":1}: converting it to a string (in a template literal) throws a
\* TypeError, since its toString is not callable and valueOf returns the object.

Undefined == "undefined"
JNull == "null"
Unprintable == "{\"toString\":1}"
NullV == [t |-> "null"]
\* The object {}
EmptyObject == [t |-> "{}"]

\* What a call did: it threw an exception described by msg, or returned val.
Throw(msg) == [thrown |-> TRUE, msg |-> msg, val |-> NullV]
Ret(v) == [thrown |-> FALSE, msg |-> "", val |-> v]

\* `${v}`
ToStr(v) ==
    IF v = Unprintable THEN Throw("Cannot convert object to primitive value")
    ELSE Ret(v)

\* The values a tools/call request may carry as params.arguments
ArgValues == {"\"x\"", Unprintable}
Arguments ==
    { [kind |-> k, query |-> Undefined, type |-> Undefined, id |-> Undefined] :
        k \in {"undefined", "null", "prim"} }
    \cup { [kind |-> "object", query |-> q, type |-> t, id |-> i] :
        q \in ArgValues, t \in ArgValues, i \in {"\"x\""} }
    \cup { [kind |-> "object", query |-> q, type |-> q, id |-> Unprintable] :
        q \in {"\"x\""} }
NoArguments == [kind |-> "undefined", query |-> Undefined, type |-> Undefined,
                id |-> Undefined]

Names == {Undefined, "search", "retrieve", "other", Unprintable}
Params ==
    { [kind |-> k, name |-> Undefined, arguments |-> NoArguments] :
        k \in {"undefined", "null", "prim"} }
    \cup { [kind |-> "object", name |-> n, arguments |-> a] :
        n \in Names, a \in Arguments }
NoParams == [kind |-> "undefined", name |-> Undefined, arguments |-> NoArguments]

Versions == {Undefined, "2.0", "1.0"}
Ids == {Undefined, JNull, "1"}
Methods == {Undefined, "initialize", "tools/list", "tools/call", "ping",
            "resources/list", Unprintable}

\* The values JSON.parse can return: null, a primitive, an array (reading a
\* property of a primitive or of an array gives undefined), or an object.
Messages ==
    { [kind |-> k, jsonrpc |-> Undefined, id |-> Undefined, method |-> Undefined,
       params |-> NoParams] : k \in {"null", "prim", "array"} }
    \cup { [kind |-> "object", jsonrpc |-> v, id |-> i, method |-> m, params |-> p] :
        v \in Versions, i \in Ids, m \in Methods, p \in Params }

Malformed == [text |-> "malformed"]
Bodies == {Malformed} \cup { [text |-> "json", value |-> m] : m \in Messages }

\* JSON.parse(body)
JSONparse(body) ==
    IF body.text = "malformed" THEN Throw("Unexpected token") ELSE Ret(body.value)

-----------------------------------------------------------------------------
\* The envelope codec

\* Mutant: the response does not carry the request's id.
createJsonRpcResponse_NoEcho(id, result, error) ==
    IF error # NullV
    THEN [jsonrpc |-> "2.0", id |-> JNull, error |-> error]
    ELSE [jsonrpc |-> "2.0", id |-> JNull, result |-> result]

createJsonRpcResponse(id, result, error) ==
    IF error # NullV
    THEN [jsonrpc |-> "2.0", id |-> id, error |-> error]
    ELSE [jsonrpc |-> "2.0", id |-> id, result |-> result]

createJsonRpcNotification(method, params) ==
    [jsonrpc |-> "2.0", method |-> method, params |-> params]

\* JSON.stringify(data): a property whose value is undefined is left out.
JSONstringify(data) ==
    IF "id" \in DOMAIN data /\ data.id = Undefined
    THEN [f \in DOMAIN data \ {"id"} |-> data[f]]
    ELSE data

-----------------------------------------------------------------------------
\* The handlers

handleInitialize(request) ==
    Ret(createJsonRpcResponse(request.id,
            [protocolVersion |-> MCP_PROTOCOL_VERSION,
             capabilities |-> [tools |-> EmptyObject],
             serverInfo |-> SERVER_INFO],
            NullV))

\* Mutant: the tools are listed in the reverse order.
handleToolsList_Reversed(request) ==
    Ret(createJsonRpcResponse(request.id,
            [tools |-> [i \in DOMAIN registry |-> registry[Len(registry) + 1 - i]]],
            NullV))

handleToolsList(request) ==
    Ret(createJsonRpcResponse(request.id, [tools |-> registry], NullV))

\* name === "search": the text is built from args.query
SearchContent(args) ==
    IF args.kind \in {"undefined", "null"}
    THEN Throw("Cannot read properties of undefined (reading 'query')")
    ELSE LET q == ToStr(args.query) IN
         IF q.thrown THEN q
         ELSE Ret(<< [type |-> "text",
                      text |-> <<"GoHighLevel Search Results for: ", q.val>>] >>)

\* name === "retrieve": the text is built from args.type and args.id
RetrieveContent(args) ==
    IF args.kind \in {"undefined", "null"}
    THEN Throw("Cannot read properties of undefined (reading 'type')")
    ELSE LET t == ToStr(args.type)
             i == ToStr(args.id) IN
         IF t.thrown THEN t
         ELSE IF i.thrown THEN i
         ELSE Ret(<< [type |-> "text",
                      text |-> <<"GoHighLevel ", t.val, " Retrieved: ID ", i.val>>] >>)

handleToolsCall(request) ==
    IF request.params.kind \in {"undefined", "null"}
    THEN Throw("Cannot destructure property 'name' of 'request.params'")
    ELSE LET name == request.params.name
             args == request.params.arguments IN
         IF name = "search"
         THEN LET c == SearchContent(args) IN
              IF c.thrown THEN c
              ELSE Ret(createJsonRpcResponse(request.id, [content |-> c.val], NullV))
         ELSE IF name = "retrieve"
         THEN LET c == RetrieveContent(args) IN
              IF c.thrown THEN c
              ELSE Ret(createJsonRpcResponse(request.id, [content |-> c.val], NullV))
         ELSE LET n == ToStr(name) IN
              IF n.thrown THEN n
              ELSE Ret(createJsonRpcResponse(request.id, NullV,
                        [code |-> MethodNotFound,
                         message |-> <<"Method not found: ", n.val>>]))

\* Mutant: only the first ping is answered with a result.
handlePing_OnceOnly(request) ==
    IF \E k \in DOMAIN served :
           served[k].body.text = "json" /\ served[k].body.value.method = "ping"
    THEN Ret(createJsonRpcResponse(request.id, NullV,
               [code |-> InternalError, message |-> <<"Internal error">>]))
    ELSE Ret(createJsonRpcResponse(request.id, EmptyObject, NullV))

handlePing(request) ==
    Ret(createJsonRpcResponse(request.id, EmptyObject, NullV))

-----------------------------------------------------------------------------
\* The dispatcher

\* Mutant: only a version that is present and wrong is refused.
VersionOk_MissingAccepted(message) == message.jsonrpc # "1.0"

\* message.jsonrpc !== "2.0" is false
VersionOk(message) == message.jsonrpc = "2.0"

\* o, with the handlers that were entered
Ran(o, handlers) ==
    [thrown |-> o.thrown, msg |-> o.msg, val |-> o.val, ran |-> handlers]

\* The switch on message.method
Route(message) ==
    IF message.method = "initialize"
    THEN Ran(handleInitialize(message), <<"handleInitialize">>)
    ELSE IF message.method = "tools/list"
    THEN Ran(handleToolsList(message), <<"handleToolsList">>)
    ELSE IF message.method = "tools/call"
    THEN Ran(handleToolsCall(message), <<"handleToolsCall">>)
    ELSE IF message.method = "ping"
    THEN Ran(handlePing(message), <<"handlePing">>)
    ELSE LET m == ToStr(message.method) IN
         IF m.thrown THEN Ran(m, <<>>)
         ELSE Ran(Ret(createJsonRpcResponse(message.id, NullV,
                        [code |-> MethodNotFound,
                         message |-> <<"Method not found: ", m.val>>])), <<>>)

\* The body of the try block: reading a property of null throws.
TryBlock(message) ==
    IF message.kind = "null"
    THEN Ran(Throw("Cannot read properties of null (reading 'method')"), <<>>)
    ELSE IF ~VersionOk(message)
    THEN Ran(Ret(createJsonRpcResponse(message.id, NullV,
                   [code |-> InvalidRequest,
                    message |-> <<"Invalid Request: jsonrpc must be '2.0'">>])), <<>>)
    ELSE Route(message)

\* The catch block: it reads message.id, which throws again when message is null.
CatchBlock(message, error) ==
    IF message.kind = "null"
    THEN Throw("Cannot read properties of null (reading 'id')")
    ELSE Ret(createJsonRpcResponse(message.id, NullV,
               [code |-> InternalError, message |-> <<"Internal error">>,
                data |-> error.msg]))

\* What the call did, the handlers it entered (ran) and the description of the
\* exception its catch block caught ("" when there was none).
processJsonRpcMessage(message) ==
    LET t == TryBlock(message) IN
    IF ~t.thrown
    THEN [thrown |-> FALSE, msg |-> "", val |-> t.val, ran |-> t.ran, caught |-> ""]
    ELSE LET c == CatchBlock(message, t) IN
         [thrown |-> c.thrown, msg |-> c.msg, val |-> c.val, ran |-> t.ran,
          caught |-> t.msg]

-----------------------------------------------------------------------------
\* The stream and the timers

\* What res.write may do: it succeeds on a live stream; once the peer has gone
\* or the stream was ended, it may also throw.
WriteOutcomes(sock, ends) ==
    IF sock = "up" /\ ends = <<>> THEN {TRUE} ELSE {TRUE, FALSE}

\* sendSSE(res, data): one res.write of the serialized data; an exception of the
\* write is caught and logged. ok tells whether the write succeeded.
sendSSE(frames, data, ok, afterClose, afterEnd) ==
    Append(frames, [kind |-> "data", payload |-> JSONstringify(data), at |-> now,
                    ok |-> ok, afterClose |-> afterClose, afterEnd |-> afterEnd])

\* res.write(': heartbeat\n\n')
WriteHeartbeat(frames, ok, afterClose, afterEnd) ==
    Append(frames, [kind |-> "comment", payload |-> [comment |-> "heartbeat"],
                    at |-> now, ok |-> ok, afterClose |-> afterClose,
                    afterEnd |-> afterEnd])

ArmedDeadlines == pDrainTimer \cup gNotifyTimer \cup gHeartbeat \cup gAutoClose

\* The event loop runs the callbacks of expired timers in the order of their
\* deadlines.
Due(d) == d <= now /\ \A e \in ArmedDeadlines : d <= e

\* Time passes while a timer is armed; the callback of the earliest deadline runs
\* before the clock is more than MaxLate past it.
Tick ==
    /\ ~crashed
    /\ ArmedDeadlines # {}
    /\ \E t \in TimePoints \cup ArmedDeadlines
                 \cup {d + MaxLate : d \in ArmedDeadlines} :
         /\ t > now
         /\ \A d \in ArmedDeadlines : t <= d + MaxLate
         /\ now' = t
    /\ UNCHANGED <<svars, pvars, gvars, crashed>>

NoOutcome == [thrown |-> FALSE, msg |-> "", val |-> NullV, ran |-> <<>>, caught |-> ""]

Init ==
    /\ now = 0
    /\ pPhase = "idle"
    /\ pBody = Malformed          \* let body = '': no JSON yet
    /\ pSock = "up"
    /\ pOutcome = NoOutcome
    /\ pFrames = <<>>
    /\ pDrainTimer = {}
    /\ pEnds = <<>>
    /\ gPhase = "idle"
    /\ gSock = "up"
    /\ gClosed = FALSE
    /\ gErrored = FALSE
    /\ gNotifyTimer = {}
    /\ gHeartbeat = {}
    /\ gAutoClose = {}
    /\ gFrames = <<>>
    /\ gEnds = <<>>
    /\ gCallbacks = <<>>
    /\ crashed = FALSE
    /\ registry = TOOLS
    /\ served = <<>>

-----------------------------------------------------------------------------
\* POST /sse

\* The handler: the headers are written and the body is awaited.
PostSse(body) ==
    /\ ~crashed
    /\ pPhase = "idle"
    /\ pPhase' = "receiving"
    /\ pBody' = body
    /\ UNCHANGED <<svars, now, pSock, pOutcome, pFrames, pDrainTimer, pEnds, gvars, crashed>>

\* The client aborts before the body is complete: 'end' is never emitted.
PostAbort ==
    /\ ~crashed
    /\ pPhase = "receiving"
    /\ pSock = "up"
    /\ pPhase' = "aborted"
    /\ pSock' = "down"
    /\ UNCHANGED <<svars, now, pBody, pOutcome, pFrames, pDrainTimer, pEnds, gvars, crashed>>

\* The client goes away after it has sent the whole body ('end' is still
\* emitted); once the response is written nothing reads the socket's state.
PostDisconnect ==
    /\ ~crashed
    /\ pPhase = "receiving"
    /\ pSock = "up"
    /\ pSock' = "down"
    /\ UNCHANGED <<svars, now, pPhase, pBody, pOutcome, pFrames, pDrainTimer, pEnds, gvars,
                   crashed>>

\* Mutant: the parse error is reported as an invalid request.
ParseErrorResponse_InvalidRequest ==
    createJsonRpcResponse(JNull, NullV, [code |-> InvalidRequest,
                                         message |-> <<"Parse error">>])

\* The response of the catch block of the 'end' callback
ParseErrorResponse ==
    createJsonRpcResponse(JNull, NullV, [code |-> ParseError,
                                         message |-> <<"Parse error">>])

\* The catch block of the 'end' callback: the parse error frame, then res.end().
PostEndCatch(ok) ==
    /\ pFrames' = sendSSE(pFrames, ParseErrorResponse, ok, FALSE, pEnds # <<>>)
    /\ pEnds' = Append(pEnds, now)
    /\ pPhase' = "ended"
    /\ UNCHANGED pDrainTimer

\* The try block of the 'end' callback after a successful dispatch: the response
\* frame, then the drain timer.
PostEndRespond(response, ok) ==
    /\ pFrames' = sendSSE(pFrames, response, ok, FALSE, pEnds # <<>>)
    /\ pDrainTimer' = {now + DrainDelay}
    /\ pPhase' = "draining"
    /\ UNCHANGED pEnds

\* req.on('end')
PostEnd ==
    /\ ~crashed
    /\ pPhase = "receiving"
    /\ \E ok \in WriteOutcomes(pSock, pEnds) :
         LET json == JSONparse(pBody) IN
         IF json.thrown
         THEN /\ PostEndCatch(ok)
              /\ UNCHANGED pOutcome
         ELSE LET response == processJsonRpcMessage(json.val) IN
              /\ pOutcome' = response
              /\ IF response.thrown
                 THEN PostEndCatch(ok)
                 ELSE PostEndRespond(response.val, ok)
    /\ UNCHANGED <<svars, now, pBody, pSock, gvars, crashed>>

\* The callback of the drain timer: res.end()
PostDrainTimeout ==
    /\ ~crashed
    /\ \E d \in pDrainTimer : Due(d)
    /\ pDrainTimer' = {}
    /\ pEnds' = Append(pEnds, now)
    /\ pPhase' = "ended"
    /\ UNCHANGED <<svars, now, pBody, pSock, pOutcome, pFrames, gvars, crashed>>

NextPost ==
    \/ Tick
    \/ \E body \in Bodies : PostSse(body)
    \/ PostAbort
    \/ PostDisconnect
    \/ PostEnd
    \/ PostDrainTimeout

SpecPost == Init /\ [][NextPost]_vars

-----------------------------------------------------------------------------
\* GET /sse

\* Whether the req 'close' or 'error' callback has run
GetTornDown == gClosed \/ gErrored

\* The record of a timer callback that runs
Callback(name) ==
    [name |-> name, at |-> now, afterClose |-> GetTornDown, afterEnd |-> gEnds # <<>>]

\* The handler: the headers, the first notification, the three timers and the
\* two listeners.
GetSse ==
    /\ ~crashed
    /\ gPhase = "idle"
    /\ gPhase' = "open"
    /\ \E ok \in WriteOutcomes(gSock, gEnds) :
         gFrames' = sendSSE(gFrames,
                        createJsonRpcNotification("notification/initialized", EmptyObject),
                        ok, GetTornDown, gEnds # <<>>)
    /\ gNotifyTimer' = {now + ToolsNotifyDelay}
    /\ gHeartbeat' = {now + HeartbeatInterval}
    /\ gAutoClose' = {now + AutoCloseDelay}
    /\ UNCHANGED <<svars, now, pvars, gSock, gClosed, gErrored, gEnds, gCallbacks, crashed>>

\* The client goes away.
GetDisconnect ==
    /\ ~crashed
    /\ gPhase = "open"
    /\ gSock = "up"
    /\ gSock' = "down"
    /\ UNCHANGED <<svars, now, pvars, gPhase, gClosed, gErrored, gNotifyTimer, gHeartbeat,
                   gAutoClose, gFrames, gEnds, gCallbacks, crashed>>

\* req.on('close'): emitted once the connection has gone, or the stream was ended.
GetReqClose ==
    /\ ~crashed
    /\ gPhase = "open"
    /\ ~gClosed
    /\ gSock = "down" \/ gEnds # <<>>
    /\ gClosed' = TRUE
    /\ gHeartbeat' = {}
    /\ UNCHANGED <<svars, now, pvars, gPhase, gSock, gErrored, gNotifyTimer, gAutoClose,
                   gFrames, gEnds, gCallbacks, crashed>>

\* req.on('error'): the connection fails; 'close' follows.
GetReqError ==
    /\ ~crashed
    /\ gPhase = "open"
    /\ ~gClosed
    /\ ~gErrored
    /\ gErrored' = TRUE
    /\ gSock' = "down"
    /\ gHeartbeat' = {}
    /\ UNCHANGED <<svars, now, pvars, gPhase, gClosed, gNotifyTimer, gAutoClose, gFrames,
                   gEnds, gCallbacks, crashed>>

\* The callback of the 100 ms timer
GetNotifyTimeout ==
    /\ ~crashed
    /\ \E d \in gNotifyTimer : Due(d)
    /\ gNotifyTimer' = {}
    /\ \E ok \in WriteOutcomes(gSock, gEnds) :
         gFrames' = sendSSE(gFrames,
                        createJsonRpcNotification("notification/tools/list_changed",
                                                  EmptyObject),
                        ok, GetTornDown, gEnds # <<>>)
    /\ gCallbacks' = Append(gCallbacks, Callback("toolsNotification"))
    /\ UNCHANGED <<svars, now, pvars, gPhase, gSock, gClosed, gErrored, gHeartbeat, gAutoClose,
                   gEnds, crashed>>

\* The callback of the interval: the write is not guarded, so an exception of
\* res.write leaves the callback uncaught.
GetHeartbeat ==
    /\ ~crashed
    /\ \E d \in gHeartbeat : Due(d)
    /\ gHeartbeat' = {now + HeartbeatInterval}
    /\ \E ok \in WriteOutcomes(gSock, gEnds) :
         /\ gFrames' = WriteHeartbeat(gFrames, ok, GetTornDown, gEnds # <<>>)
         /\ crashed' = ~ok
    /\ gCallbacks' = Append(gCallbacks, Callback("heartbeat"))
    /\ UNCHANGED <<svars, now, pvars, gPhase, gSock, gClosed, gErrored, gNotifyTimer,
                   gAutoClose, gEnds>>

\* Mutant: the auto-close callback ends the stream and leaves the heartbeat on.
GetAutoClose_KeepsHeartbeat ==
    /\ ~crashed
    /\ \E d \in gAutoClose : Due(d)
    /\ gAutoClose' = {}
    /\ gEnds' = Append(gEnds, now)
    /\ gCallbacks' = Append(gCallbacks, Callback("autoClose"))
    /\ UNCHANGED <<svars, now, pvars, gPhase, gSock, gClosed, gErrored, gNotifyTimer,
                   gHeartbeat, gFrames, crashed>>

\* The callback of the 50 s timer
GetAutoClose ==
    /\ ~crashed
    /\ \E d \in gAutoClose : Due(d)
    /\ gAutoClose' = {}
    /\ gHeartbeat' = {}
    /\ gEnds' = Append(gEnds, now)
    /\ gCallbacks' = Append(gCallbacks, Callback("autoClose"))
    /\ UNCHANGED <<svars, now, pvars, gPhase, gSock, gClosed, gErrored, gNotifyTimer, gFrames,
                   crashed>>

NextGet ==
    \/ Tick
    \/ GetSse
    \/ GetDisconnect
    \/ GetReqClose
    \/ GetReqError
    \/ GetNotifyTimeout
    \/ GetHeartbeat
    \/ GetAutoClose

SpecGet == Init /\ [][NextGet]_vars

\* The clock advances and the event loop runs the callback of an expired timer.
FairSpecGet ==
    /\ SpecGet
    /\ WF_vars(Tick)
    /\ WF_vars(GetNotifyTimeout)
    /\ WF_vars(GetHeartbeat)
    /\ WF_vars(GetAutoClose)

-----------------------------------------------------------------------------
\* A sequence of POST /sse exchanges

\* How many exchanges a behaviour holds
MaxRequests == 3

\* A request object
Request(version, id, method, params) ==
    [text |-> "json",
     value |-> [kind |-> "object", jsonrpc |-> version, id |-> id, method |-> method,
                params |-> params]]

\* The bodies of the exchanges that are run in sequence, or next to a GET session
SeqBodies ==
    { Malformed,
      [text |-> "json",
       value |-> [kind |-> "null", jsonrpc |-> Undefined, id |-> Undefined,
                  method |-> Undefined, params |-> NoParams]],
      Request("2.0", "1", "initialize", NoParams),
      Request("2.0", "1", "tools/list", NoParams),
      Request("2.0", "1", "ping", NoParams),
      Request("2.0", Undefined, "ping", NoParams),
      Request("2.0", "1", "tools/call",
              [kind |-> "object", name |-> "search",
               arguments |-> [kind |-> "object", query |-> "\"x\"", type |-> "\"x\"",
                              id |-> "\"x\""]]),
      Request("2.0", "1", "tools/call",
              [kind |-> "object", name |-> "search", arguments |-> NoArguments]),
      Request("2.0", "1", "tools/call",
              [kind |-> "object", name |-> "other", arguments |-> NoArguments]),
      Request("1.0", "1", "ping", NoParams),
      Request("2.0", "1", "resources/list", NoParams) }

\* The response the 'end' callback hands to sendSSE for a body
ResponseFor(body) ==
    LET json == JSONparse(body) IN
    IF json.thrown THEN ParseErrorResponse
    ELSE LET response == processJsonRpcMessage(json.val) IN
         IF response.thrown THEN ParseErrorResponse ELSE response.val

\* One whole POST /sse exchange, from the request to the end of its stream, as
\* one step: every exchange has its own req, res and body, and what exchanges
\* share is the module's state.
PostExchange(body) ==
    /\ ~crashed
    /\ Len(served) < MaxRequests
    /\ served' = Append(served, [body |-> body,
                                 frame |-> JSONstringify(ResponseFor(body))])
    /\ UNCHANGED <<now, pvars, gvars, crashed, registry>>

NextSeq == \E body \in SeqBodies : PostExchange(body)

SpecSeq == Init /\ [][NextSeq]_vars

-----------------------------------------------------------------------------
\* Two concurrent /sse sessions: a GET session and a POST exchange

Next ==
    \/ Tick
    \/ \E body \in SeqBodies : PostSse(body)
    \/ PostAbort
    \/ PostDisconnect
    \/ PostEnd
    \/ PostDrainTimeout
    \/ GetSse
    \/ GetDisconnect
    \/ GetReqClose
    \/ GetReqError
    \/ GetNotifyTimeout
    \/ GetHeartbeat
    \/ GetAutoClose

Spec == Init /\ [][Next]_vars

-----------------------------------------------------------------------------
\* Vocabulary of the properties

IsError(response, code) == "error" \in DOMAIN response /\ response.error.code = code
IsResult(response) == "result" \in DOMAIN response
ToolNames == { TOOLS[i].name : i \in DOMAIN TOOLS }
KnownMethods == {"initialize", "tools/list", "tools/call", "ping"}

\* The 'end' callback of the POST exchange has run.
PostHandled == pPhase \in {"draining", "ended"}
\* ... and its body was JSON, so that processJsonRpcMessage was called with it.
Dispatched == PostHandled /\ pBody.text = "json"
\* ... and the JSON value was one that has properties (anything but null).
DispatchedRequest == Dispatched /\ pBody.value.kind # "null"

-----------------------------------------------------------------------------
\* C1: processJsonRpcMessage is total: for every parsed JSON value (objects,
\* null, arrays, primitives) it returns a response and lets no exception escape,
\* and an exception raised while it handles the message becomes an error
\* response with code -32603 whose data is the exception's description.
C1_DispatcherTotal ==
    Dispatched =>
        /\ ~pOutcome.thrown
        /\ IsResult(pOutcome.val) \/ "error" \in DOMAIN pOutcome.val
        /\ pOutcome.caught # "" =>
               /\ IsError(pOutcome.val, InternalError)
               /\ pOutcome.val.error.data = pOutcome.caught

\* C2: envelope validation precedes routing: a request whose jsonrpc is missing
\* or is not "2.0" is answered with error -32600 and no handler is entered,
\* whatever its method and params.
C2_EnvelopeBeforeRouting ==
    (DispatchedRequest /\ pBody.value.jsonrpc # "2.0") =>
        /\ ~pOutcome.thrown
        /\ IsError(pOutcome.val, InvalidRequest)
        /\ pOutcome.ran = <<>>
        /\ pOutcome.caught = ""

\* C2 witness: a tools/call without params and with version "1.0" was answered
\* with -32600.
C2_Witness ==
    /\ DispatchedRequest
    /\ pBody.value.jsonrpc = "1.0"
    /\ pBody.value.method = "tools/call"
    /\ pBody.value.params.kind = "undefined"
    /\ IsError(pOutcome.val, InvalidRequest)

\* A tools/call request with version "2.0" was dispatched.
ToolsCallDispatched ==
    /\ DispatchedRequest
    /\ pBody.value.jsonrpc = "2.0"
    /\ pBody.value.method = "tools/call"

\* C3: a tools/call whose name is not in the registry is answered with error
\* -32601; one whose name is a registered tool is answered with a result whose
\* content is a non-empty sequence whose first element has type "text".
C3_ToolsCallOutcome ==
    ToolsCallDispatched =>
        /\ ~pOutcome.thrown
        /\ IF pBody.value.params.name \in ToolNames
           THEN /\ IsResult(pOutcome.val)
                /\ Len(pOutcome.val.result.content) >= 1
                /\ pOutcome.val.result.content[1].type = "text"
           ELSE IsError(pOutcome.val, MethodNotFound)

\* C4: a request with version "2.0" whose method is none of initialize,
\* tools/list, tools/call, ping (a missing method included) is answered with
\* error -32601.
C4_UnknownMethod ==
    (/\ DispatchedRequest
     /\ pBody.value.jsonrpc = "2.0"
     /\ pBody.value.method \notin KnownMethods) =>
        /\ ~pOutcome.thrown
        /\ IsError(pOutcome.val, MethodNotFound)

\* C5: for a POST body that is not parseable as JSON exactly one frame is
\* written, a response with error code -32700 and id null; it is written before
\* the stream is ended, and it reaches a client that is still connected.
C5_ParseErrorFrame ==
    pBody.text = "malformed" =>
        IF PostHandled
        THEN /\ Len(pFrames) = 1
             /\ pFrames[1].kind = "data"
             /\ IsError(pFrames[1].payload, ParseError)
             /\ "id" \in DOMAIN pFrames[1].payload
             /\ pFrames[1].payload.id = JNull
             /\ ~pFrames[1].afterEnd
             /\ pSock = "up" => pFrames[1].ok
        ELSE pFrames = <<>> /\ pEnds = <<>>

\* C5 witness: the exchange of an unparseable body is over, with its frame.
C5_Witness ==
    /\ pBody.text = "malformed"
    /\ pPhase = "ended"
    /\ Len(pFrames) = 1
    /\ pFrames[1].ok

\* C6: a POST exchange with a JSON body writes exactly one response frame and
\* ends the stream only after the frame, and not before the drain delay
\* (2,500 ms) has passed since the frame.
C6_DrainBeforeEnd ==
    pBody.text = "json" =>
        /\ PostHandled => Len(pFrames) = 1
        /\ pEnds # <<>> =>
               /\ Len(pFrames) = 1
               /\ Len(pEnds) = 1
               /\ pEnds[1] >= pFrames[1].at + DrainDelay

\* The 'end' callback runs once the whole body has arrived, unless the client
\* aborts first.
FairSpecPost == SpecPost /\ WF_vars(PostEnd)

\* A request with a non-null id was posted.
PostedWithId ==
    /\ pPhase # "idle"
    /\ pBody.text = "json"
    /\ pBody.value.id \notin {Undefined, JNull}

\* The stream carries exactly one frame, a response with the request's id.
AnsweredWithId ==
    /\ pBody.text = "json"
    /\ Len(pFrames) = 1
    /\ pFrames[1].kind = "data"
    /\ IsResult(pFrames[1].payload) \/ "error" \in DOMAIN pFrames[1].payload
    /\ "id" \in DOMAIN pFrames[1].payload
    /\ pFrames[1].payload.id = pBody.value.id

\* C7: a request posted with a non-null id eventually gets exactly one response
\* frame on its stream, carrying the same id, on every dispatch path, unless
\* the session closes first; no second frame is ever written.
C7_IdEchoed ==
    /\ [](PostedWithId => IF PostHandled THEN AnsweredWithId ELSE pFrames = <<>>)
    /\ (PostedWithId ~> (AnsweredWithId \/ pPhase = "aborted"))

\* C7 witness: a request with id 1 that made its handler throw was answered
\* with an internal error carrying id 1.
C7_Witness ==
    /\ PostedWithId
    /\ AnsweredWithId
    /\ IsError(pFrames[1].payload, InternalError)
    /\ pPhase = "ended"

-----------------------------------------------------------------------------
\* C8: once the GET stream is closed by the client, or has failed, no further
\* frame is written to it: no frame is written after the 'close' or 'error'
\* event, whenever that event comes.
C8_NoFrameAfterClose ==
    \A i \in DOMAIN gFrames : ~gFrames[i].afterClose

\* The GET session has reached a terminal transition.
GetTerminal == gClosed \/ gErrored \/ gEnds # <<>>

\* C9: on every terminal transition of a GET session every pending timer is
\* cancelled, so that no timer callback runs after the stream is torn down;
\* the session holds at most one heartbeat timer and one auto-close timer.
C9_TimersCancelled ==
    /\ Cardinality(gHeartbeat) <= 1
    /\ Cardinality(gAutoClose) <= 1
    /\ GetTerminal => gNotifyTimer = {} /\ gHeartbeat = {} /\ gAutoClose = {}
    /\ \A i \in DOMAIN gCallbacks :
           ~gCallbacks[i].afterClose /\ ~gCallbacks[i].afterEnd

\* 1 for notification/initialized, 2 for notification/tools/list_changed, 3 for
\* a heartbeat
FrameRank(f) ==
    IF f.kind = "comment" THEN 3
    ELSE IF f.payload.method = "notification/initialized" THEN 1
    ELSE 2

\* The order and the timing of the frames written so far and of the end
FrameOrder ==
    /\ gPhase = "open" => Len(gFrames) >= 1 /\ FrameRank(gFrames[1]) = 1
    /\ \A i, j \in DOMAIN gFrames :
           i < j =>
               /\ FrameRank(gFrames[i]) <= FrameRank(gFrames[j])
               /\ FrameRank(gFrames[i]) < 3 =>
                      FrameRank(gFrames[i]) < FrameRank(gFrames[j])
               /\ gFrames[j].at >= gFrames[i].at
               /\ FrameRank(gFrames[j]) = 2 =>
                      gFrames[j].at >= gFrames[1].at + ToolsNotifyDelay
               /\ FrameRank(gFrames[j]) = 3 =>
                      /\ gFrames[j].at >= gFrames[1].at + HeartbeatInterval
                      /\ FrameRank(gFrames[i]) = 3 =>
                             gFrames[j].at >= gFrames[i].at + HeartbeatInterval
                      /\ \E k \in DOMAIN gFrames : k < j /\ FrameRank(gFrames[k]) = 2
    /\ \A i \in DOMAIN gFrames : ~gFrames[i].afterEnd
    /\ \A e \in DOMAIN gEnds :
           /\ gEnds[e] >= gFrames[1].at + AutoCloseDelay
           /\ gEnds[e] <= gFrames[1].at + AutoCloseDelay + MaxLate
           /\ \A i \in DOMAIN gFrames : gFrames[i].at <= gEnds[e]

\* C10: the frames of a GET session come in a fixed order: first
\* notification/initialized, then, not before 100 ms, notification/tools/list_changed,
\* then heartbeats at least 25 s apart, then the forced end of the stream at
\* about 50 s (not before) if the client has not closed; no heartbeat precedes
\* tools/list_changed and no notification follows a heartbeat.
C10_FrameOrder ==
    /\ []FrameOrder
    /\ (gPhase = "open" ~> (gEnds # <<>> \/ gSock = "down"))

\* C10 witness: the whole lifecycle: both notifications, two heartbeats and the
\* forced end.
C10_Witness ==
    /\ Len(gFrames) = 4
    /\ FrameRank(gFrames[2]) = 2
    /\ FrameRank(gFrames[3]) = 3
    /\ FrameRank(gFrames[4]) = 3
    /\ gEnds # <<>>

\* C11: every GET /sse session eventually has its stream ended by the server:
\* whatever the interleaving of client close, request error and timer events,
\* the auto-close callback ends the stream.
C11_EventuallyEnded == gPhase = "open" ~> gEnds # <<>>

-----------------------------------------------------------------------------
\* The k-th exchange was a request with version "2.0" for the method.
ServedMethod(k, method) ==
    /\ served[k].body.text = "json"
    /\ served[k].body.value.kind = "object"
    /\ served[k].body.value.jsonrpc = "2.0"
    /\ served[k].body.value.method = method

\* C12: after any sequence of requests of any kind the tool registry is
\* unchanged and its names are pairwise distinct, and every tools/list response
\* returns exactly the registry's entries, in the same order.
C12_RegistryStable ==
    /\ registry = TOOLS
    /\ \A i, j \in DOMAIN registry : registry[i].name = registry[j].name => i = j
    /\ \A k \in DOMAIN served :
           ServedMethod(k, "tools/list") =>
               /\ IsResult(served[k].frame)
               /\ served[k].frame.result.tools = registry

\* C12 witness: a tools/list answered with the registry after a tools/call and
\* an unparseable body.
C12_Witness ==
    /\ Len(served) = 3
    /\ ServedMethod(1, "tools/call")
    /\ served[2].body.text = "malformed"
    /\ ServedMethod(3, "tools/list")
    /\ served[3].frame.result.tools = registry

-----------------------------------------------------------------------------
\* The response object that the 'end' callback of the POST exchange handed to
\* sendSSE
PostResponse ==
    IF pBody.text = "malformed" \/ pOutcome.thrown
    THEN ParseErrorResponse
    ELSE pOutcome.val

\* C13: every response frame produced for a POST /sse request, once serialized
\* and parsed back, contains exactly one of result and error (never both, never
\* neither), and contains the same id that was given to createJsonRpcResponse.
C13_RoundTrip ==
    PostHandled =>
        \A i \in DOMAIN pFrames :
            LET parsed == pFrames[i].payload IN
            /\ ("result" \in DOMAIN parsed) # ("error" \in DOMAIN parsed)
            /\ "id" \in DOMAIN parsed
            /\ parsed.id = PostResponse.id

-----------------------------------------------------------------------------
\* The POST body is not well-formed JSON.
NotJson == pBody.text = "malformed"

\* The request's method is none of the four, or it is a tools/call whose tool
\* name is not in the registry.
UnrecognizedMethodOrTool ==
    /\ DispatchedRequest
    /\ \/ pBody.value.method \notin KnownMethods
       \/ /\ pBody.value.method = "tools/call"
          /\ pBody.value.params.kind \notin {"undefined", "null"}
          /\ pBody.value.params.name \notin ToolNames

\* An exception was raised while the message was handled.
HandlingFailed == Dispatched /\ pOutcome.caught # ""

\* C14: the error taxonomy is exhaustive and one-to-one: every error response
\* written carries one of the codes -32700, -32600, -32601, -32603; -32700 is
\* produced only for a body that is not well-formed JSON, -32600 only for a
\* wrong or missing version, -32601 only for an unrecognized method or tool
\* name, and -32603 for every other failure during handling (and only then).
C14_ErrorTaxonomy ==
    PostHandled =>
        /\ \A i \in DOMAIN pFrames :
               LET r == pFrames[i].payload IN
               "error" \in DOMAIN r =>
                   /\ r.error.code \in {ParseError, InvalidRequest, MethodNotFound,
                                        InternalError}
                   /\ r.error.code = ParseError => NotJson
                   /\ r.error.code = InvalidRequest =>
                          DispatchedRequest /\ pBody.value.jsonrpc # "2.0"
                   /\ r.error.code = MethodNotFound => UnrecognizedMethodOrTool
                   /\ r.error.code = InternalError => HandlingFailed
        /\ HandlingFailed =>
               \E i \in DOMAIN pFrames : IsError(pFrames[i].payload, InternalError)

-----------------------------------------------------------------------------
\* A write to the GET stream has failed.
GetWriteFailed == \E i \in DOMAIN gFrames : ~gFrames[i].ok

\* C15: a stream write error in a GET /sse session is recovered by the session:
\* no exception escapes from a timer callback, and once a write of a
\* notification frame or of a heartbeat frame has failed the session's timers
\* are cancelled (the session is closed).
C15_WriteErrorRecovered ==
    /\ ~crashed
    /\ GetWriteFailed => gNotifyTimer = {} /\ gHeartbeat = {} /\ gAutoClose = {}

-----------------------------------------------------------------------------
\* The outcome of an exchange: result versus error, and the error code
Outcome(frame) ==
    [error |-> "error" \in DOMAIN frame,
     code |-> IF "error" \in DOMAIN frame THEN frame.error.code ELSE 0]

\* C16: the dispatcher keeps no protocol state: in any sequence of requests the
\* outcome of a request (result versus error, and the error code) does not
\* depend on the requests before it, so that equal requests have equal outcomes
\* wherever they stand, the first of the sequence included; a tools/call of a
\* registered tool with its arguments succeeds whether or not an initialize came
\* before, and every one of any number of pings returns the result {}.
C16_Stateless ==
    /\ \A i, j \in DOMAIN served :
           served[i].body = served[j].body =>
               Outcome(served[i].frame) = Outcome(served[j].frame)
    /\ \A k \in DOMAIN served :
           /\ (/\ ServedMethod(k, "tools/call")
               /\ served[k].body.value.params.name \in ToolNames
               /\ served[k].body.value.params.arguments.kind = "object")
                  => IsResult(served[k].frame)
           /\ ServedMethod(k, "ping") =>
                  /\ IsResult(served[k].frame)
                  /\ served[k].frame.result = EmptyObject

\* C16 witness: a ping, a tools/call and the same ping again, with no
\* initialize: three results.
C16_Witness ==
    /\ Len(served) = 3
    /\ ServedMethod(1, "ping")
    /\ ServedMethod(2, "tools/call")
    /\ served[3].body = served[1].body
    /\ \A k \in DOMAIN served : IsResult(served[k].frame)

-----------------------------------------------------------------------------
\* The names that tools/list returns
RegistryNames == { registry[i].name : i \in DOMAIN registry }

\* A tools/call was dispatched whose params can be read and whose name is a
\* string, or is missing.
ToolsCallNamed ==
    /\ ToolsCallDispatched
    /\ pBody.value.params.kind \notin {"undefined", "null"}
    /\ pBody.value.params.name # Unprintable

\* C17: the tool names that tools/call accepts (does not reject with -32601)
\* are exactly the names that tools/list returns from the registry: a name is
\* accepted if and only if it is the name of a registry entry.
C17_AcceptedNames ==
    ToolsCallNamed =>
        (~IsError(pOutcome.val, MethodNotFound)
            <=> pBody.value.params.name \in RegistryNames)

\* C17 witness: a tools/call of retrieve, a name of the registry, was answered
\* with a result.
C17_Witness ==
    /\ ToolsCallNamed
    /\ pBody.value.params.name = "retrieve"
    /\ pBody.value.params.name \in RegistryNames
    /\ IsResult(pOutcome.val)
    /\ pPhase = "ended"

-----------------------------------------------------------------------------
\* The message posted is a notification: a JSON object without an id.
PostedNotification ==
    /\ DispatchedRequest
    /\ pBody.value.kind = "object"
    /\ pBody.value.id = Undefined

\* C18: a notification is never answered: a message posted to /sse that carries
\* no id does not cause a response frame to be written, and the notification
\* frames the server itself emits carry no id.
C18_NotificationNotAnswered ==
    /\ PostedNotification => pFrames = <<>>
    /\ \A i \in DOMAIN gFrames :
           gFrames[i].kind = "data" => "id" \notin DOMAIN gFrames[i].payload

-----------------------------------------------------------------------------
\* The timers of the POST exchange, and of the GET session, that are pending in
\* the process: none once an uncaught exception has stopped it.
PostTimers == IF crashed THEN {} ELSE pDrainTimer
GetTimers == IF crashed THEN <<{}, {}, {}>> ELSE <<gNotifyTimer, gHeartbeat, gAutoClose>>

\* A step of the GET session leaves the POST exchange's frames, end of stream
\* and timers alone, and the other way round.
IndependentStep ==
    /\ gvars' # gvars =>
           pFrames' = pFrames /\ pEnds' = pEnds /\ PostTimers' = PostTimers
    /\ pvars' # pvars =>
           gFrames' = gFrames /\ gEnds' = gEnds /\ GetTimers' = GetTimers

\* C19: concurrent /sse sessions are independent: under every interleaving of
\* their events, a close, error or timer event of one session never cancels a
\* timer of, writes a frame to, or ends the stream of the other session.
C19_Independent == [][IndependentStep]_vars

-----------------------------------------------------------------------------
\* C20: in every /sse session the server ends the stream at most once and
\* writes no frame to it after the end: in a GET session no heartbeat and no
\* notification is written after the auto-close callback has run, also when
\* the second heartbeat and the auto-close are due together at 50 s, and in a
\* POST session the single response frame is written before the stream is
\* ended.
C20_EndedOnce ==
    /\ Len(gEnds) <= 1
    /\ Len(pEnds) <= 1
    /\ \A i \in DOMAIN gFrames :
           /\ ~gFrames[i].afterEnd
           /\ gEnds # <<>> => gFrames[i].at <= gEnds[1]
    /\ \A i \in DOMAIN pFrames : ~pFrames[i].afterEnd
    /\ pEnds # <<>> => Len(pFrames) = 1 /\ pFrames[1].at <= pEnds[1]

\* C20 witness: the second heartbeat and the auto-close callback ran at the same
\* instant, 50 s after the start, the heartbeat first, and a POST exchange has
\* ended as well.
C20_Witness ==
    /\ Len(gEnds) = 1
    /\ Len(gFrames) = 4
    /\ gFrames[4].kind = "comment"
    /\ gFrames[4].at = gEnds[1]
    /\ gEnds[1] = gFrames[1].at + AutoCloseDelay
    /\ Len(pEnds) = 1
    /\ Len(pFrames) = 1

====
